---- MODULE Spec2Model ----
(***************************************************************************)
(* LiteLamport (src/README.md lines 51-392): Lamport one-time signatures   *)
(* with a zero-count checksum, and the key/signature codecs.               *)
(*                                                                         *)
(* Scale.  The source works on 8-bit bytes, 32-byte hashes and             *)
(* 264 = 32*8 + 1*8 key entries.  The model keeps every formula of the     *)
(* source and scales the two sizes: a byte has ByteBits bits and a hash    *)
(* has HashBytes bytes.  With ByteBits = 2 and HashBytes = 2 the digest    *)
(* has 4 = 2^2 bits, the same relation as 256 = 2^8 in the source, so the  *)
(* zero count of a digest ranges over 0..2^ByteBits and the all-zero       *)
(* digest overflows the one checksum byte exactly as in the source.        *)
(*                                                                         *)
(* Values.  A JavaScript value passed to or returned by the API is a       *)
(* record [kind, val]: an array of items, a Buffer, a string, the JSON     *)
(* text of an array, or undefined.  An item of an array is a string (a     *)
(* sequence of characters); text is the hex-like rendering of bytes, two   *)
(* characters per byte.                                                    *)
(***************************************************************************)
EXTENDS Integers, Sequences, FiniteSets, TLC

\* ---------------------------------------------------------------- bounds
\* bits of one byte (8 in the source)
ByteBits == 2
\* bytes of one hash (32 in the source: HASH_ELEMENT_BYTE_SIZE, SEED_BYTE_SIZE)
HashBytes == 2
\* number of messages the caller draws from
MaxMessages == 6
\* number of outcomes of the secure random source that are explored
NumRandomSources == 2
\* largest key index passed to generateKeysFromSeed
MaxIndex == 0

\* ------------------------------------------------------------- constants
CHECKSUM_BYTE_SIZE == 1
HASH_ELEMENT_BYTE_SIZE == HashBytes
SEED_BYTE_SIZE == HashBytes
\* 264 = 256 digest bits + 8 checksum bits in the source
KEY_SIG_ENTRY_COUNT ==
  HASH_ELEMENT_BYTE_SIZE * ByteBits + CHECKSUM_BYTE_SIZE * ByteBits

ByteRange == 2 ^ ByteBits
HashSpace == 2 ^ (ByteBits * HASH_ELEMENT_BYTE_SIZE)

\* ------------------------------------------------- bytes, bits and text
\* Buffer.alloc(n): n zero bytes
BufferAlloc(n) == [i \in 1..n |-> 0]

\* buf.fill(value): every byte becomes value & 255
BufferFill(buffer, value) == [i \in 1..Len(buffer) |-> value % ByteRange]

\* fault: the bits of a byte taken least significant first, byte >> i & 1
BitOfByteLsbFirst(byte, i) == (byte \div (2 ^ i)) % 2

\* byte >> (7 - i) & 1, for bit i = 0..7 of a byte
BitOfByte(byte, i) == (byte \div (2 ^ (ByteBits - 1 - i))) % 2

\* for (let byte of buffer) for (let i = 0; i < 8; i++) bitArray.push(...)
convertBufferToBitArray(buffer) ==
  [n \in 1..(Len(buffer) * ByteBits) |->
     BitOfByte(buffer[((n - 1) \div ByteBits) + 1], (n - 1) % ByteBits)]

\* radix of one character of the text encoding (16 for hex in the source)
Radix == 2 ^ ((ByteBits + 1) \div 2)

\* buf.toString(encoding): two characters per byte, high digit first
BufferToString(buffer) ==
  [n \in 1..(2 * Len(buffer)) |->
     IF n % 2 = 1 THEN buffer[(n + 1) \div 2] \div Radix
     ELSE buffer[n \div 2] % Radix]

\* Buffer.from(string, encoding): one byte per complete pair of characters
BufferFrom(string) ==
  [i \in 1..(Len(string) \div 2) |->
     (string[2 * i - 1] * Radix + string[2 * i]) % ByteRange]

\* Buffer.byteLength(string, encoding)
BufferByteLength(string) == Len(string) \div 2

\* Buffer.concat(list)
RECURSIVE BufferConcat(_)
BufferConcat(bufferArray) ==
  IF bufferArray = <<>> THEN <<>>
  ELSE Head(bufferArray) \o BufferConcat(Tail(bufferArray))

\* buf.slice(start, end), zero-based, end exclusive, clamped to the buffer
BufferSlice(buffer, start, end) ==
  SubSeq(buffer, start + 1, IF end > Len(buffer) THEN Len(buffer) ELSE end)

\* the number a buffer spells, and back (used by the hash collaborators)
RECURSIVE BytesToNat(_)
BytesToNat(buffer) ==
  IF buffer = <<>> THEN 0
  ELSE BytesToNat(SubSeq(buffer, 1, Len(buffer) - 1)) * ByteRange
         + buffer[Len(buffer)]

NatToBytes(n, len) ==
  [i \in 1..len |-> (n \div (ByteRange ^ (len - i))) % ByteRange]

\* ------------------------------------------------------ JavaScript values
Arr(items) == [kind |-> "array", val |-> items]
Buf(bytes) == [kind |-> "buffer", val |-> <<bytes>>]
Str(chars) == [kind |-> "string", val |-> <<chars>>]
Json(items) == [kind |-> "json", val |-> items]
Undefined == [kind |-> "undefined", val |-> <<>>]

\* an array element that is a number, not a string
NumberItem == <<-1>>
\* the null that sign maps a 0 bit to
NullItem == <<-2>>
IsString(item) == item # NumberItem /\ item # NullItem

\* the outcome of a call that may throw
Returned(v) == [ok |-> TRUE, val |-> v]
Threw == [ok |-> FALSE, val |-> <<>>]

Formats == {"object", "json", "buffer", "hex"}

\* ----------------------------------------------------- collaborators
\* Messages the caller signs and verifies.
Messages == 0..((IF MaxMessages < HashSpace THEN MaxMessages ELSE HashSpace) - 1)

\* Hash(message): an injective map from the messages to the digests; message 0
\* has the all-zero digest and message 1 the all-one digest.
DigestOfMessage(message) ==
  IF message % 2 = 0 THEN (message \div 2) % HashSpace
  ELSE (HashSpace - 1 - (message \div 2)) % HashSpace

\* sha256(message, hashEncoding): the digest as text
sha256Message(message) ==
  BufferToString(NatToBytes(DigestOfMessage(message), HASH_ELEMENT_BYTE_SIZE))

\* sha256(encodedString, hashEncoding): Hash of the bytes the text spells, as
\* text; injective on HASH_ELEMENT_BYTE_SIZE-byte inputs (collision-free).
sha256(encodedString) ==
  BufferToString(
    NatToBytes((5 * BytesToNat(BufferFrom(encodedString)) + 3) % HashSpace,
               HASH_ELEMENT_BYTE_SIZE))

\* hmacSha256(seed, seedEncoding, `${suffix}-${i}`, hashEncoding): KeyedHash
hmacSha256(seed, suffix, i) ==
  BufferToString(
    NatToBytes((7 * BytesToNat(BufferFrom(seed)) + 11 * suffix + 3 * i + 1)
                 % HashSpace,
               HASH_ELEMENT_BYTE_SIZE))

\* randomBytes(size): the draw number `draw` of the random source `source`.
\* Source 1 yields pairwise distinct entries, source 2 repeats entries.
RandomSources == 1..NumRandomSources
randomBytes(source, draw, size) ==
  NatToBytes((source * (2 * draw + 1)) % (ByteRange ^ size), size)

\* ---------------------------------------------------------- validation
\* TRUE iff _validateRawKeyFormat(key) returns without throwing
validateRawKeyFormat(key) ==
  /\ key.kind = "array"
  /\ Len(key.val) = KEY_SIG_ENTRY_COUNT
  /\ \A i \in 1..Len(key.val) :
       /\ IsString(key.val[i])
       /\ BufferByteLength(key.val[i]) = HASH_ELEMENT_BYTE_SIZE

\* TRUE iff _validateRawSignatureFormat(signature) returns without throwing
validateRawSignatureFormat(signature) ==
  /\ signature.kind = "array"
  /\ ~(Len(signature.val) > KEY_SIG_ENTRY_COUNT)
  /\ \A i \in 1..Len(signature.val) :
       /\ IsString(signature.val[i])
       /\ BufferByteLength(signature.val[i]) = HASH_ELEMENT_BYTE_SIZE

\* -------------------------------------------------------- buffer codecs
\* the result of a decode: the raw array, or a throw; `shared` says that the
\* array returned is the caller's own array object, not a fresh one
Decoded(items, shared) == [ok |-> TRUE, val |-> items, shared |-> shared]
DecodeThrew == [ok |-> FALSE, val |-> <<>>, shared |-> FALSE]

encodeKeyToBuffer(rawKey) ==
  BufferConcat([i \in 1..Len(rawKey) |-> BufferFrom(rawKey[i])])

encodeSignatureToBuffer(rawSignature) ==
  BufferConcat([i \in 1..Len(rawSignature) |-> BufferFrom(rawSignature[i])])

\* fault: byteOffset = i instead of i * HASH_ELEMENT_BYTE_SIZE
SliceEntriesOverlapping(buffer, entryCount) ==
  [n \in 1..entryCount |->
     BufferToString(BufferSlice(buffer, n - 1, n - 1 + HASH_ELEMENT_BYTE_SIZE))]

\* the loop of _decodeKeyFromBuffer and _decodeSignatureFromBuffer
SliceEntries(buffer, entryCount) ==
  [n \in 1..entryCount |->
     BufferToString(
       BufferSlice(buffer, (n - 1) * HASH_ELEMENT_BYTE_SIZE,
                   (n - 1) * HASH_ELEMENT_BYTE_SIZE + HASH_ELEMENT_BYTE_SIZE))]

decodeKeyFromBuffer(encodedKey) ==
  IF encodedKey.kind # "buffer" THEN DecodeThrew
  ELSE LET bytes == encodedKey.val[1]
           expectedByteSize == KEY_SIG_ENTRY_COUNT * HASH_ELEMENT_BYTE_SIZE
       IN IF Len(bytes) # expectedByteSize THEN DecodeThrew
          ELSE Decoded(SliceEntries(bytes, Len(bytes) \div HASH_ELEMENT_BYTE_SIZE),
                       FALSE)

decodeSignatureFromBuffer(encodedSignature) ==
  IF encodedSignature.kind # "buffer" THEN DecodeThrew
  ELSE LET bytes == encodedSignature.val[1]
           maxExpectedByteSize == KEY_SIG_ENTRY_COUNT * HASH_ELEMENT_BYTE_SIZE
       IN IF Len(bytes) > maxExpectedByteSize THEN DecodeThrew
          ELSE IF Len(bytes) % HASH_ELEMENT_BYTE_SIZE # 0 THEN DecodeThrew
          ELSE Decoded(SliceEntries(bytes, Len(bytes) \div HASH_ELEMENT_BYTE_SIZE),
                       FALSE)

\* Buffer.from(value, encoding) of a text format: a string is decoded (the text
\* of a JSON document holds no digit pair at its start and decodes to nothing),
\* a Buffer is copied, undefined throws a TypeError.  Arrays are never passed
\* to a text format in this model.
BufferFromValue(value) ==
  CASE value.kind = "string" -> Returned(Buf(BufferFrom(value.val[1])))
    [] value.kind \in {"json", "jsonOther"} -> Returned(Buf(<<>>))
    [] value.kind = "buffer" -> Returned(value)
    [] value.kind = "undefined" -> Threw

\* ------------------------------------------------- constructor closures
encodeKey(keyFormat, rawKey) ==
  CASE keyFormat = "object" -> Arr(rawKey)
    [] keyFormat = "json" -> Json(rawKey)
    [] keyFormat = "buffer" -> Buf(encodeKeyToBuffer(rawKey))
    [] OTHER -> Str(BufferToString(encodeKeyToBuffer(rawKey)))

decodeKey(keyFormat, encodedKey) ==
  CASE keyFormat = "object" ->
         IF validateRawKeyFormat(encodedKey)
         THEN Decoded(encodedKey.val, TRUE) ELSE DecodeThrew
    [] keyFormat = "json" ->
         IF encodedKey.kind = "json" /\ validateRawKeyFormat(Arr(encodedKey.val))
         THEN Decoded(encodedKey.val, FALSE) ELSE DecodeThrew
    [] keyFormat = "buffer" -> decodeKeyFromBuffer(encodedKey)
    [] OTHER ->
         LET keyBuffer == BufferFromValue(encodedKey)
         IN IF keyBuffer.ok THEN decodeKeyFromBuffer(keyBuffer.val)
            ELSE DecodeThrew

encodeSignature(signatureFormat, rawSignature) ==
  CASE signatureFormat = "object" -> Arr(rawSignature)
    [] signatureFormat = "json" -> Json(rawSignature)
    [] signatureFormat = "buffer" -> Buf(encodeSignatureToBuffer(rawSignature))
    [] OTHER -> Str(BufferToString(encodeSignatureToBuffer(rawSignature)))

\* fault: the validated array itself is returned, not a copy of it
DecodeSignatureObjectShared(encodedSignature) ==
  IF validateRawSignatureFormat(encodedSignature)
  THEN Decoded(encodedSignature.val, TRUE) ELSE DecodeThrew

\* signatureFormat 'object': validate, then return the copy [...encodedSignature]
decodeSignatureObject(encodedSignature) ==
  IF validateRawSignatureFormat(encodedSignature)
  THEN Decoded(encodedSignature.val, FALSE) ELSE DecodeThrew

decodeSignature(signatureFormat, encodedSignature) ==
  CASE signatureFormat = "object" -> decodeSignatureObject(encodedSignature)
    [] signatureFormat = "json" ->
         IF /\ encodedSignature.kind = "json"
            /\ validateRawSignatureFormat(Arr(encodedSignature.val))
         THEN Decoded(encodedSignature.val, FALSE) ELSE DecodeThrew
    [] signatureFormat = "buffer" -> decodeSignatureFromBuffer(encodedSignature)
    [] OTHER ->
         LET signatureBuffer == BufferFromValue(encodedSignature)
         IN IF signatureBuffer.ok
            THEN decodeSignatureFromBuffer(signatureBuffer.val)
            ELSE DecodeThrew

\* ------------------------------------------------------ key generation
generateRandomArray(source, length, elementBytes) ==
  [n \in 1..length |-> BufferToString(randomBytes(source, n - 1, elementBytes))]

generateRandomArrayFromSeed(length, seed, suffix) ==
  [n \in 1..length |-> hmacSha256(seed, suffix, n - 1)]

\* fault: the entries are passed on without hashing them
RawPublicKeyUnhashed(privateKeyRaw) == privateKeyRaw

getRawPublicKeyFromRawPrivateKey(privateKeyRaw) ==
  [n \in 1..Len(privateKeyRaw) |-> sha256(privateKeyRaw[n])]

getPublicKeyFromPrivateKey(keyFormat, privateKey) ==
  LET privateKeyRaw == decodeKey(keyFormat, privateKey)
  IN IF ~privateKeyRaw.ok THEN Threw
     ELSE Returned(encodeKey(keyFormat,
                             getRawPublicKeyFromRawPrivateKey(privateKeyRaw.val)))

\* the index argument left out (undefined or null)
NoIndex == -1

generateKeysFromSeed(keyFormat, seed, index) ==
  LET seedBuffer == BufferFrom(seed)
      suffix == IF index = NoIndex THEN 0 ELSE index
      privateKey == generateRandomArrayFromSeed(KEY_SIG_ENTRY_COUNT, seed, suffix)
      publicKey == getRawPublicKeyFromRawPrivateKey(privateKey)
  IN IF Len(seedBuffer) < SEED_BYTE_SIZE THEN Threw
     ELSE Returned(<<encodeKey(keyFormat, privateKey),
                     encodeKey(keyFormat, publicKey)>>)

generateKeys(keyFormat, source) ==
  LET privateKey ==
        generateRandomArray(source, KEY_SIG_ENTRY_COUNT, HASH_ELEMENT_BYTE_SIZE)
      publicKey == getRawPublicKeyFromRawPrivateKey(privateKey)
  IN Returned(<<encodeKey(keyFormat, privateKey), encodeKey(keyFormat, publicKey)>>)

\* ------------------------------------------------------ sign and verify
convertEncodedStringToBitArray(encodedString) ==
  convertBufferToBitArray(BufferFrom(encodedString))

\* bitArray.reduce((total, bit) => total + (bit ^ 1), 0)
RECURSIVE CountZeroBits(_)
CountZeroBits(bitArray) ==
  IF bitArray = <<>> THEN 0
  ELSE (1 - Head(bitArray)) + CountZeroBits(Tail(bitArray))

\* sign, lines 188-195: the digest bits followed by the checksum bits
SignBitArray(message) ==
  LET messageHash == sha256Message(message)
      messageBitArray == convertEncodedStringToBitArray(messageHash)
      checksum == CountZeroBits(messageBitArray)
      checksumBuffer == BufferFill(BufferAlloc(CHECKSUM_BYTE_SIZE), checksum)
      checksumBitArray == convertBufferToBitArray(checksumBuffer)
  IN messageBitArray \o checksumBitArray

\* verify, lines 213-221: the same computation, written out again
VerifyBitArray(message) ==
  LET messageHash == sha256Message(message)
      messageBitArray == convertEncodedStringToBitArray(messageHash)
      checksum == CountZeroBits(messageBitArray)
      checksumBuffer == BufferFill(BufferAlloc(CHECKSUM_BYTE_SIZE), checksum)
      checksumBitArray == convertBufferToBitArray(checksumBuffer)
  IN messageBitArray \o checksumBitArray

\* fault: the test of the bit inverted, bit ? null : privateKeyRaw[index]
SelectEntriesOfZeroBits(messageBitArray, privateKeyRaw) ==
  SelectSeq([n \in 1..Len(messageBitArray) |->
               IF messageBitArray[n] # 0 THEN NullItem ELSE privateKeyRaw[n]],
            LAMBDA item : item # NullItem /\ item # <<>>)

\* messageBitArray.map((bit, index) => bit ? privateKeyRaw[index] : null)
\*   .filter(item => item): null and the empty string are falsy
SelectEntries(messageBitArray, privateKeyRaw) ==
  SelectSeq([n \in 1..Len(messageBitArray) |->
               IF messageBitArray[n] # 0 THEN privateKeyRaw[n] ELSE NullItem],
            LAMBDA item : item # NullItem /\ item # <<>>)

sign(keyFormat, signatureFormat, message, privateKey) ==
  LET privateKeyRaw == decodeKey(keyFormat, privateKey)
  IN IF ~privateKeyRaw.ok THEN Threw
     ELSE Returned(encodeSignature(signatureFormat,
                     SelectEntries(SignBitArray(message), privateKeyRaw.val)))

\* fault: the signature is not reversed before the entries are popped
ReverseForgotten(array) == array

\* array.reverse()
Reverse(array) == [n \in 1..Len(array) |-> array[Len(array) + 1 - n]]

\* messageBitArray.every(...) from position `index` on, popping the entries off
\* the tail of the reversed signature; yields the verdict and what is left of
\* the reversed array when every() stops
RECURSIVE EveryBit(_, _, _, _)
EveryBit(messageBitArray, index, invertedSignatureRaw, publicKeyRaw) ==
  IF index > Len(messageBitArray)
  THEN [verdict |-> TRUE, left |-> invertedSignatureRaw]
  ELSE IF messageBitArray[index] = 0
  THEN EveryBit(messageBitArray, index + 1, invertedSignatureRaw, publicKeyRaw)
  ELSE IF Len(invertedSignatureRaw) = 0
  THEN [verdict |-> FALSE, left |-> invertedSignatureRaw]
  ELSE LET nextSignatureItem == invertedSignatureRaw[Len(invertedSignatureRaw)]
           popped == SubSeq(invertedSignatureRaw, 1, Len(invertedSignatureRaw) - 1)
           signatureItemHash == sha256(nextSignatureItem)
           targetPublicKeyItem == publicKeyRaw[index]
       IN IF signatureItemHash = targetPublicKeyItem
          THEN EveryBit(messageBitArray, index + 1, popped, publicKeyRaw)
          ELSE [verdict |-> FALSE, left |-> popped]

\* fault: the error thrown by a decoder leaves verify
rethrowDecodeError == "threw"

\* catch (error) { return false; }: what verify makes of an error thrown by
\* decodeSignature or decodeKey
catchDecodeError == "false"

\* verify: what it returns, the bit vector it built (none when it returned
\* from the catch block), and the caller's signature object after the call
\* (reverse() and pop() act on the array decodeSignature returned; the caller's
\* array changes only if that is the caller's own array)
verify(keyFormat, signatureFormat, message, signature, publicKey) ==
  LET signatureRaw == decodeSignature(signatureFormat, signature)
      publicKeyRaw == decodeKey(keyFormat, publicKey)
  IN IF ~signatureRaw.ok \/ ~publicKeyRaw.ok
     THEN [returns |-> catchDecodeError, bits |-> <<>>, signature |-> signature]
     ELSE LET invertedSignatureRaw == Reverse(signatureRaw.val)
              messageBitArray == VerifyBitArray(message)
              outcome == EveryBit(messageBitArray, 1, invertedSignatureRaw,
                                  publicKeyRaw.val)
          IN [returns |-> IF outcome.verdict THEN "true" ELSE "false",
              bits |-> messageBitArray,
              signature |-> IF signatureRaw.shared THEN Arr(outcome.left)
                            ELSE signature]

\* ================================================================ state
\* One LiteLamport instance and the values its caller holds.
VARIABLES
  keyFormat,        \* this.keyFormat, fixed by the constructor
  signatureFormat,  \* this.signatureFormat, fixed by the constructor
  privateKey,       \* the caller's private key, as the instance encoded it
  publicKey,        \* the caller's public key
  signature,        \* the caller's signature object
  keyOrigin,        \* "none", "generated" (by this instance) or "supplied"
  sigOrigin,        \* "none", "signed" (by sign, untouched since) or "supplied"
  signed,           \* the last sign call that returned: message and bit vector
  last              \* the last call: operation, arguments and outcome

vars == <<keyFormat, signatureFormat, privateKey, publicKey, signature,
          keyOrigin, sigOrigin, signed, last>>

\* a value that is no message
NoMessage == 0 - MaxMessages
NoSigned == [message |-> NoMessage, bits |-> <<>>]

\* a call: the operation, its message (or seed index) argument, its key, seed
\* or signature argument, whether it returned, threw or (verify) its verdict,
\* the bit vector it built and the value it returned
Call(op, message, returns, bits, arg, value) ==
  [op |-> op, message |-> message, returns |-> returns, bits |-> bits,
   arg |-> arg, value |-> value]
NoCall == Call("new", NoMessage, "returned", <<>>, Undefined, Undefined)

\* seeds as text in seedEncoding: one byte short of SEED_BYTE_SIZE, and exact
Seeds ==
  {BufferToString(NatToBytes(ByteRange ^ (len - 1) + 2, len)) :
     len \in (SEED_BYTE_SIZE - 1)..SEED_BYTE_SIZE}
Indexes == {NoIndex} \cup 0..MaxIndex

\* The call sequences explored.  A generator or getPublicKeyFromPrivateKey is
\* called while the caller holds no signature; sign is called with the
\* generated keys; after a verify the caller repeats that verify or goes on
\* with another operation (verify changes nothing the caller holds, which
\* ArgumentsUnchanged checks on every step, so a verify of another message is
\* the one taken from the state before).

\* constructor(options)
Init ==
  /\ keyFormat \in Formats
  /\ signatureFormat \in Formats
  /\ privateKey = Undefined
  /\ publicKey = Undefined
  /\ signature = Undefined
  /\ keyOrigin = "none"
  /\ sigOrigin = "none"
  /\ signed = NoSigned
  /\ last = NoCall

\* the caller keeps the key pair a generator returned and drops the signature
\* made with the previous pair
KeepKeyPair(op, index, seed, outcome) ==
  IF outcome.ok
  THEN /\ privateKey' = outcome.val[1]
       /\ publicKey' = outcome.val[2]
       /\ keyOrigin' = "generated"
       /\ signature' = Undefined
       /\ sigOrigin' = "none"
       /\ signed' = NoSigned
       /\ last' = Call(op, index, "returned", <<>>, seed, Undefined)
  ELSE /\ last' = Call(op, index, "threw", <<>>, seed, Undefined)
       /\ UNCHANGED <<privateKey, publicKey, keyOrigin, signature, sigOrigin,
                      signed>>

GenerateKeys ==
  \E source \in RandomSources :
    /\ sigOrigin = "none"
    /\ KeepKeyPair("generateKeys", NoMessage, Undefined,
                   generateKeys(keyFormat, source))
    /\ UNCHANGED <<keyFormat, signatureFormat>>

GenerateKeysFromSeed ==
  \E seed \in Seeds, index \in Indexes :
    /\ sigOrigin = "none"
    /\ KeepKeyPair("generateKeysFromSeed", index, Str(seed),
                   generateKeysFromSeed(keyFormat, seed, index))
    /\ UNCHANGED <<keyFormat, signatureFormat>>

GetPublicKeyFromPrivateKey ==
  LET outcome == getPublicKeyFromPrivateKey(keyFormat, privateKey)
  IN /\ sigOrigin = "none"
     /\ last' = Call("getPublicKeyFromPrivateKey", NoMessage,
                     IF outcome.ok THEN "returned" ELSE "threw", <<>>,
                     privateKey, IF outcome.ok THEN outcome.val ELSE Undefined)
     /\ UNCHANGED <<keyFormat, signatureFormat, privateKey, publicKey,
                    signature, keyOrigin, sigOrigin, signed>>

Sign ==
  \E message \in Messages :
    LET outcome == sign(keyFormat, signatureFormat, message, privateKey)
    IN /\ sigOrigin # "supplied"
       /\ keyOrigin # "supplied"
       /\ IF outcome.ok
          THEN /\ signature' = outcome.val
               /\ sigOrigin' = "signed"
               /\ signed' = [message |-> message, bits |-> SignBitArray(message)]
               /\ last' = Call("sign", message, "returned",
                               SignBitArray(message), privateKey, outcome.val)
          ELSE /\ last' = Call("sign", message, "threw", <<>>, privateKey,
                               Undefined)
               /\ UNCHANGED <<signature, sigOrigin, signed>>
       /\ UNCHANGED <<keyFormat, signatureFormat, privateKey, publicKey,
                      keyOrigin>>

Verify ==
  \E message \in Messages :
    LET outcome == verify(keyFormat, signatureFormat, message, signature,
                          publicKey)
    IN /\ last.op = "verify" => message = last.message
       /\ signature' = outcome.signature
       /\ sigOrigin' = IF outcome.signature = signature THEN sigOrigin
                       ELSE "supplied"
       /\ last' = Call("verify", message, outcome.returns, outcome.bits,
                       signature, Undefined)
       /\ UNCHANGED <<keyFormat, signatureFormat, privateKey, publicKey,
                      keyOrigin, signed>>

\* ------------------------------------------------ untrusted input
\* a well-formed entry that belongs to no key of this model's caller
ExtraEntry == BufferToString(BufferAlloc(HASH_ELEMENT_BYTE_SIZE))
\* an entry one byte short
ShortEntry == BufferToString(BufferAlloc(HASH_ELEMENT_BYTE_SIZE - 1))
\* the JSON text of a value that is not an array
JsonOther == [kind |-> "jsonOther", val |-> <<>>]

\* raw signatures made from a signature `raw` that sign returned: all entries
\* or the last entry removed, the first entry replaced, an entry appended, an
\* item of the wrong size appended, more entries than a key has
AlteredRawSignatures(raw) ==
  {SubSeq(raw, 1, k) : k \in {0, Len(raw) - 1} \cap 0..(Len(raw) - 1)}
    \cup {[raw EXCEPT ![1] = ExtraEntry] : k \in 1..(IF Len(raw) > 0 THEN 1 ELSE 0)}
    \cup {Append(raw, ExtraEntry), Append(raw, ShortEntry)}
    \cup {raw \o [n \in 1..(KEY_SIG_ENTRY_COUNT + 1 - Len(raw)) |-> ExtraEntry]}

\* what a caller may pass as the signature instead of the one sign returned
SuppliedSignatures(format, raw) ==
  {encodeSignature(format, altered) : altered \in AlteredRawSignatures(raw)}
    \cup {Undefined}
    \cup (IF format = "object" THEN {Arr(Append(raw, NumberItem))}
          ELSE IF format = "json" THEN {Json(Append(raw, NumberItem)), JsonOther}
          ELSE {})

\* what a caller may pass as the public key instead of the generated one
SuppliedPublicKeys(format, raw) ==
  {encodeKey(format, SubSeq(raw, 1, Len(raw) - 1)),
   encodeKey(format, [raw EXCEPT ![Len(raw)] = sha256(ExtraEntry)]),
   Undefined}

\* the caller replaces the signature sign returned by another value
SupplySignature ==
  /\ keyOrigin = "generated"
  /\ sigOrigin = "signed"
  /\ \E supplied \in
          SuppliedSignatures(signatureFormat,
                             decodeSignature(signatureFormat, signature).val) :
       signature' = supplied
  /\ sigOrigin' = "supplied"
  /\ last' = Call("supplySignature", NoMessage, "returned", <<>>, Undefined,
                  Undefined)
  /\ UNCHANGED <<keyFormat, signatureFormat, privateKey, publicKey, keyOrigin,
                 signed>>

\* the caller replaces the generated public key by another value
SupplyPublicKey ==
  /\ keyOrigin = "generated"
  /\ sigOrigin = "signed"
  /\ \E supplied \in
          SuppliedPublicKeys(keyFormat, decodeKey(keyFormat, publicKey).val) :
       publicKey' = supplied
  /\ keyOrigin' = "supplied"
  /\ last' = Call("supplyPublicKey", NoMessage, "returned", <<>>, Undefined,
                  Undefined)
  /\ UNCHANGED <<keyFormat, signatureFormat, privateKey, signature, sigOrigin,
                 signed>>

Next ==
  \/ GenerateKeys
  \/ GenerateKeysFromSeed
  \/ GetPublicKeyFromPrivateKey
  \/ Sign
  \/ Verify
  \/ SupplySignature
  \/ SupplyPublicKey

Spec == Init /\ [][Next]_vars

\* ------------------------------------------------ the codecs on their own
\* raw keys and raw signatures as the generators and sign build them
RandomRawKeys ==
  {generateRandomArray(source, KEY_SIG_ENTRY_COUNT, HASH_ELEMENT_BYTE_SIZE) :
     source \in RandomSources}
SeedRawKeys ==
  {generateRandomArrayFromSeed(KEY_SIG_ENTRY_COUNT, seed, index) :
     seed \in Seeds, index \in 0..MaxIndex}
RawKeys ==
  RandomRawKeys \cup SeedRawKeys
    \cup {getRawPublicKeyFromRawPrivateKey(key) : key \in RandomRawKeys \cup SeedRawKeys}
RawSignatures ==
  {SelectEntries(SignBitArray(message), key) :
     message \in Messages, key \in RandomRawKeys}

\* decodeKey(encodeKey(rawKey))
EncodeDecodeKey ==
  /\ \E rawKey \in RawKeys :
       LET decoded == decodeKey(keyFormat, encodeKey(keyFormat, rawKey))
       IN last' = Call("encodeDecodeKey", NoMessage,
                       IF decoded.ok THEN "returned" ELSE "threw", <<>>,
                       Arr(rawKey), Arr(decoded.val))
  /\ UNCHANGED <<keyFormat, signatureFormat, privateKey, publicKey, signature,
                 keyOrigin, sigOrigin, signed>>

\* decodeSignature(encodeSignature(rawSignature))
EncodeDecodeSignature ==
  /\ \E rawSignature \in RawSignatures :
       LET decoded == decodeSignature(signatureFormat,
                                      encodeSignature(signatureFormat, rawSignature))
       IN last' = Call("encodeDecodeSignature", NoMessage,
                       IF decoded.ok THEN "returned" ELSE "threw", <<>>,
                       Arr(rawSignature), Arr(decoded.val))
  /\ UNCHANGED <<keyFormat, signatureFormat, privateKey, publicKey, signature,
                 keyOrigin, sigOrigin, signed>>

CodecNext ==
  \/ EncodeDecodeKey
  \/ EncodeDecodeSignature

CodecSpec == Init /\ [][CodecNext]_vars

\* =============================================================== claims
PopCount(bits) == Cardinality({n \in 1..Len(bits) : bits[n] = 1})
OnesUpTo(bits, i) == Cardinality({n \in 1..i : bits[n] = 1})
AllZero(bits) == \A n \in 1..Len(bits) : bits[n] = 0
DistinctEntries(raw) ==
  \A i, j \in 1..Len(raw) : i # j => raw[i] # raw[j]
WellFormedRaw(raw) ==
  \A i \in 1..Len(raw) :
    IsString(raw[i]) /\ Len(BufferFrom(raw[i])) = HASH_ELEMENT_BYTE_SIZE
\* the caller verifies, with the generated public key, the very signature that
\* sign returned
VerifiedOwnSignature ==
  /\ last.op = "verify"
  /\ keyOrigin = "generated"
  /\ sigOrigin = "signed"

\* C1: verify(M, sign(M, priv), pub) returns true for every message M and every
\* key pair the instance generated, the all-zero and the all-one digest
\* included.
SignThenVerifyAccepts ==
  (VerifiedOwnSignature /\ last.message = signed.message)
    => last.returns = "true"

\* C1 witness: the signature of the all-zero digest, which is empty, was
\* verified and accepted.
SignThenVerifyAcceptsWitness ==
  /\ VerifiedOwnSignature
  /\ last.message = signed.message
  /\ DigestOfMessage(last.message) = 0
  /\ decodeSignature(signatureFormat, signature).val = <<>>
  /\ last.returns = "true"

\* C2: with pairwise distinct private entries, verify rejects the signature of
\* M2 for every message M1 whose digest differs from that of M2.
OtherMessageRejected ==
  (/\ VerifiedOwnSignature
   /\ DistinctEntries(decodeKey(keyFormat, privateKey).val)
   /\ sha256Message(last.message) # sha256Message(signed.message))
    => last.returns = "false"

\* C3: the bit vector of a digest D1 has a 1 where the vector of a different
\* digest D2 has a 0, so a signature assembled only from the entries that the
\* signature of D2 reveals is never accepted for D1.
RevealedEntries ==
  SelectEntries(signed.bits, decodeKey(keyFormat, privateKey).val)
ChecksumBlocksReuse ==
  (/\ last.op = "verify"
   /\ last.bits # <<>>
   /\ keyOrigin = "generated"
   /\ signed.message # NoMessage
   /\ DistinctEntries(decodeKey(keyFormat, privateKey).val)
   /\ sha256Message(last.message) # sha256Message(signed.message))
    => /\ \E n \in 1..Len(last.bits) : last.bits[n] = 1 /\ signed.bits[n] = 0
       /\ LET supplied == decodeSignature(signatureFormat, last.arg).val
          IN (\A i \in 1..Len(supplied) :
                \E j \in 1..Len(RevealedEntries) : supplied[i] = RevealedEntries[j])
               => last.returns = "false"

\* C4: when decodeSignature or decodeKey throws, verify returns false and
\* throws nothing.
DecodeFailureReturnsFalse ==
  (/\ last.op = "verify"
   /\ \/ ~decodeSignature(signatureFormat, last.arg).ok
      \/ ~decodeKey(keyFormat, publicKey).ok)
    => last.returns = "false"

\* C4 witness: a signature whose decoding throws was verified.
DecodeFailureReturnsFalseWitness ==
  /\ last.op = "verify"
  /\ last.arg # Undefined
  /\ ~decodeSignature(signatureFormat, last.arg).ok
  /\ decodeKey(keyFormat, publicKey).ok
  /\ last.returns = "false"

\* C5: a generated key pair, and a public key derived from a private key,
\* decodes to KEY_SIG_ENTRY_COUNT entries of HASH_ELEMENT_BYTE_SIZE bytes, and
\* every public entry is the hash of the private entry at its position.
KeyPairOf(private, public) ==
  /\ private.ok /\ public.ok
  /\ Len(private.val) = KEY_SIG_ENTRY_COUNT
  /\ Len(public.val) = KEY_SIG_ENTRY_COUNT
  /\ WellFormedRaw(private.val)
  /\ WellFormedRaw(public.val)
  /\ \A i \in 1..KEY_SIG_ENTRY_COUNT : public.val[i] = sha256(private.val[i])
GeneratedKeysWellFormed ==
  /\ (last.op \in {"generateKeys", "generateKeysFromSeed"}
        /\ last.returns = "returned")
       => KeyPairOf(decodeKey(keyFormat, privateKey),
                    decodeKey(keyFormat, publicKey))
  /\ (last.op = "getPublicKeyFromPrivateKey" /\ last.returns = "returned")
       => KeyPairOf(decodeKey(keyFormat, last.arg),
                    decodeKey(keyFormat, last.value))
  /\ (last.op = "generateKeysFromSeed"
        /\ Len(BufferFrom(last.arg.val[1])) >= SEED_BYTE_SIZE)
       => last.returns = "returned"

\* C5 witness: generateKeysFromSeed returned a key pair.
GeneratedKeysWellFormedWitness ==
  /\ last.op = "generateKeysFromSeed"
  /\ last.returns = "returned"
  /\ decodeKey(keyFormat, publicKey).ok

\* C6: the decoded result of sign is the private entries at the 1 bits of the
\* message vector, in increasing position; its length is the number of 1 bits.
SignatureIsSelectedEntries ==
  (last.op = "sign" /\ last.returns = "returned")
    => LET decoded == decodeSignature(signatureFormat, last.value)
           privateKeyRaw == decodeKey(keyFormat, last.arg).val
       IN /\ decoded.ok
          /\ Len(last.bits) = KEY_SIG_ENTRY_COUNT
          /\ Len(decoded.val) = PopCount(last.bits)
          /\ Len(decoded.val) <= KEY_SIG_ENTRY_COUNT
          /\ \A i \in 1..KEY_SIG_ENTRY_COUNT :
               last.bits[i] = 1
                 => decoded.val[OnesUpTo(last.bits, i)] = privateKeyRaw[i]

\* C6 witness: sign returned a signature that leaves out some entries and
\* holds others.
SignatureIsSelectedEntriesWitness ==
  /\ last.op = "sign"
  /\ last.returns = "returned"
  /\ PopCount(last.bits) > 1
  /\ PopCount(last.bits) < KEY_SIG_ENTRY_COUNT - 1

\* C7: decodeKey(encodeKey(k)) = k and decodeSignature(encodeSignature(s)) = s
\* in each of the four formats, for every raw key and raw signature the
\* generators and sign build; the entries keep their order and their number.
CodecRoundTrip ==
  (last.op \in {"encodeDecodeKey", "encodeDecodeSignature"})
    => last.returns = "returned" /\ last.value = last.arg

\* C7 witness: a signature of some, not all, entries went through a buffer
\* format and back.
CodecRoundTripWitness ==
  /\ last.op = "encodeDecodeSignature"
  /\ signatureFormat \in {"buffer", "hex"}
  /\ Len(last.arg.val) > 1
  /\ last.returns = "returned"

\* C8: a call changes neither the configuration nor the arguments it was
\* given (verify leaves the caller's signature array as it was), and a sign,
\* verify or generateKeysFromSeed repeated with the same arguments returns
\* what the call before it returned.
SameCallAgain ==
  /\ last'.op = last.op
  /\ last'.message = last.message
  /\ last'.arg = last.arg
ArgumentsUnchanged ==
  [][/\ keyFormat' = keyFormat
     /\ signatureFormat' = signatureFormat
     /\ last'.op \in {"sign", "verify", "getPublicKeyFromPrivateKey"}
          => privateKey' = privateKey /\ publicKey' = publicKey
     /\ last'.op \in {"verify", "getPublicKeyFromPrivateKey"}
          => signature' = signature
     /\ (SameCallAgain /\ last'.op \in {"sign", "verify"})
          => /\ last'.returns = last.returns
             /\ last'.value = last.value
             /\ signature' = signature
     /\ (SameCallAgain /\ last'.op = "generateKeysFromSeed")
          => /\ last'.returns = last.returns
             /\ privateKey' = privateKey
             /\ publicKey' = publicKey]_vars

\* C8 witness: verify accepted a signature given as an array of several
\* entries, and the caller still holds that array.
ArgumentsUnchangedWitness ==
  /\ last.op = "verify"
  /\ signatureFormat = "object"
  /\ last.returns = "true"
  /\ Len(last.arg.val) > 1
  /\ signature = last.arg

\* C9: sign and verify build the same vector for a message: the digest bits,
\* most significant first, then the number of zero bits of the digest modulo
\* 2^(bits of the checksum), most significant bit first; with as many digest
\* bits as the checksum has values (256 = 2^8 in the source) the count of an
\* all-zero digest is stored as 0, as is the count of an all-one digest.
ChecksumWidth == CHECKSUM_BYTE_SIZE * ByteBits
DigestWidth == HASH_ELEMENT_BYTE_SIZE * ByteBits
DigestBits(message) ==
  [n \in 1..DigestWidth |->
     (DigestOfMessage(message) \div (2 ^ (DigestWidth - n))) % 2]
ExpectedVector(message) ==
  LET stored == (DigestWidth - PopCount(DigestBits(message))) % (2 ^ ChecksumWidth)
  IN DigestBits(message)
       \o [n \in 1..ChecksumWidth |-> (stored \div (2 ^ (ChecksumWidth - n))) % 2]
VectorIsDigestThenZeroCount ==
  /\ (last.op \in {"sign", "verify"} /\ last.bits # <<>>)
       => /\ last.bits = ExpectedVector(last.message)
          /\ (\/ PopCount(DigestBits(last.message)) = DigestWidth
              \/ /\ PopCount(DigestBits(last.message)) = 0
                 /\ DigestWidth = 2 ^ ChecksumWidth)
               => AllZero(SubSeq(last.bits, DigestWidth + 1, Len(last.bits)))
  /\ (last.op = "verify" /\ last.bits # <<>> /\ last.message = signed.message)
       => last.bits = signed.bits

\* C9 witness: verify built the vector of the message that was signed, whose
\* digest is all zero: the count 2^ChecksumWidth was stored as 0.
VectorIsDigestThenZeroCountWitness ==
  /\ last.op = "verify"
  /\ last.message = signed.message
  /\ DigestWidth = 2 ^ ChecksumWidth
  /\ PopCount(DigestBits(last.message)) = 0
  /\ last.bits # <<>>
  /\ AllZero(last.bits)

\* C10: with the matching public key, verify rejects every well-formed
\* signature whose number of entries differs from the number of 1 bits of the
\* message vector, be it smaller or larger.
WrongEntryCountRejected ==
  (/\ last.op = "verify"
   /\ keyOrigin = "generated"
   /\ last.bits # <<>>
   /\ Len(decodeSignature(signatureFormat, last.arg).val) # PopCount(last.bits))
    => last.returns = "false"

====
